---- MODULE Spec2Model ----
(***************************************************************************)
(* Matrix-Flag: the targeting rule evaluator (app/services/targeting.py)   *)
(* and the experiment assignment engine (app/services/ab_testing.py) over  *)
(* the key/value store they share.                                         *)
(***************************************************************************)
EXTENDS Integers, Sequences, FiniteSets, TLC

VARIABLES
    experiment,        \* hash experiment:{name}            (name -> NoHash or <<Experiment>>)
    experiments,       \* set  experiments
    rule,              \* hash rule:{name}                  (name -> NoHash or <<TargetingRule>>)
    rules,             \* set  rules
    assignment_key,    \* string experiment_assignment:{experiment}:{user}
    assignments_hash,  \* hash experiment_assignments:{experiment}, field user
    experiment_metrics,\* list experiment_metrics:{experiment}:{variant}:{metric}
    user,              \* hash user:{id}                    (id -> NoHash or <<fields>>)
    users,             \* set  users
    email,             \* string email:{email}              (email -> None or id)
    rng,               \* state of the process-wide `random` module
    now,               \* datetime.utcnow()
    calls,             \* the assign_variant coroutines in flight, one per task
    operations,        \* the operator's and the register requests in flight, one per task
    budget,            \* calls and operator requests still to be issued
    probe              \* last application of a pure function: inputs and result

vars == <<experiment, experiments, rule, rules, assignment_key, assignments_hash,
          experiment_metrics, user, users, email, rng, now, calls, operations, budget,
          probe>>

user_store == <<user, users, email>>

store == <<experiment, experiments, rule, rules, assignment_key, assignments_hash,
           experiment_metrics, user_store>>

-----------------------------------------------------------------------------
(* Bounds of the model.                                                    *)

MaxCalls == 3       \* assign_variant requests issued in one behaviour
MaxExpOps == 3      \* create/update/delete_experiment requests
MaxRuleOps == 2     \* create/update/delete_rule requests
MaxTime == 1        \* clock ticks
HashSpace == 64     \* width of the stand-in for the md5 digest
RandomSteps == 8    \* resolution of random.random(): r = k / RandomSteps
MaxMetrics == 3     \* record_metric requests
MaxUsers == 2       \* create_user requests

-----------------------------------------------------------------------------
(* Python values: the result of a call is a returned value or a raised     *)
(* exception; context and condition values are str, number, bool or list.  *)

Ret(v) == [exc |-> "", val |-> v]
Raise(e) == [exc |-> e, val |-> "None"]
RetBool(b) == [exc |-> "", val |-> b]
RaiseBool(e) == [exc |-> e, val |-> FALSE]
None == "None"

Str(chars) == [t |-> "str", n |-> 0, s |-> chars, l |-> <<>>]
Num(i) == [t |-> "num", n |-> i, s |-> <<>>, l |-> <<>>]
Bool(b) == [t |-> "bool", n |-> IF b THEN 1 ELSE 0, s |-> <<>>, l |-> <<>>]
List(seq) == [t |-> "list", n |-> 0, s |-> <<>>, l |-> seq]
Missing == [t |-> "missing", n |-> 0, s |-> <<>>, l |-> <<>>]

beta == Str(<<"b", "e", "t", "a">>)
free == Str(<<"f", "r", "e", "e">>)
be == Str(<<"b", "e">>)

\* isinstance(value, (int, float)): bool is a subclass of int
IsNumber(x) == x.t \in {"num", "bool"}
\* isinstance(value, (list, str))
IsListOrStr(x) == x.t \in {"list", "str"}

\* Python ==: numbers (and bools) compare by value, otherwise the types must
\* agree; lists compare element by element. Never raises.
RECURSIVE PyEq(_, _)
PyEq(a, b) ==
    IF IsNumber(a) /\ IsNumber(b) THEN a.n = b.n
    ELSE IF a.t # b.t THEN FALSE
    ELSE IF a.t = "list"
         THEN /\ Len(a.l) = Len(b.l)
              /\ \A i \in 1..Len(a.l) : PyEq(a.l[i], b.l[i])
    ELSE a.s = b.s

\* x in container, for a list container; for a str container the left operand
\* must be a str (substring test), else TypeError.
InList(x, lst) == \E i \in 1..Len(lst.l) : PyEq(lst.l[i], x)
IsSubstring(x, s) ==
    \E i \in 0..(Len(s.s) - Len(x.s)) : SubSeq(s.s, i + 1, i + Len(x.s)) = x.s
PyIn(x, container) ==
    IF container.t = "list" THEN RetBool(InList(x, container))
    ELSE IF x.t = "str" THEN RetBool(IsSubstring(x, container))
    ELSE RaiseBool("TypeError")

\* a < b and a <= b are defined between numbers; between a number and a str
\* or a list they raise TypeError.
PyLess(a, b) ==
    IF IsNumber(a) /\ IsNumber(b) THEN RetBool(a.n < b.n) ELSE RaiseBool("TypeError")
\* a <= b evaluated as a < b
PyLessEq_strict(a, b) ==
    IF IsNumber(a) /\ IsNumber(b) THEN RetBool(a.n < b.n) ELSE RaiseBool("TypeError")
PyLessEq(a, b) ==
    IF IsNumber(a) /\ IsNumber(b) THEN RetBool(a.n <= b.n) ELSE RaiseBool("TypeError")
PyNot(r) == IF r.exc # "" THEN r ELSE RetBool(~r.val)
\* lo <= value <= hi: the second comparison runs only if the first is true
PyChain(lo, value, hi) ==
    LET first == PyLessEq(lo, value) IN
    IF first.exc # "" \/ ~first.val THEN first ELSE PyLessEq(value, hi)

-----------------------------------------------------------------------------
(* TargetingService._evaluate_condition                                    *)

TargetingOperator ==
    {"equals", "not_equals", "contains", "not_contains", "greater_than",
     "less_than", "in", "not_in", "between", "not_between"}

Attributes == {"plan", "age"}

TargetingCondition(a, op, v) == [attribute |-> a, operator |-> op, value |-> v]

_evaluate_condition(condition, context) ==
    LET value == context[condition.attribute]
        target_value == condition.value
        op == condition.operator
    IN
    IF value.t = "missing" THEN RetBool(FALSE)
    ELSE IF op = "equals" THEN RetBool(PyEq(value, target_value))
    ELSE IF op = "not_equals" THEN RetBool(~PyEq(value, target_value))
    ELSE IF op = "contains"
         THEN IF IsListOrStr(value) THEN PyIn(target_value, value) ELSE RetBool(FALSE)
    ELSE IF op = "not_contains"
         THEN IF IsListOrStr(value) THEN PyNot(PyIn(target_value, value)) ELSE RetBool(TRUE)
    ELSE IF op = "greater_than"
         THEN IF IsNumber(value) THEN PyLess(target_value, value) ELSE RetBool(FALSE)
    ELSE IF op = "less_than"
         THEN IF IsNumber(value) THEN PyLess(value, target_value) ELSE RetBool(FALSE)
    ELSE IF op = "in"
         THEN IF target_value.t = "list" THEN RetBool(InList(value, target_value))
              ELSE RetBool(FALSE)
    ELSE IF op = "not_in"
         THEN IF target_value.t = "list" THEN RetBool(~InList(value, target_value))
              ELSE RetBool(FALSE)
    ELSE IF op = "between"
         THEN IF target_value.t # "list" \/ Len(target_value.l) # 2 THEN RetBool(FALSE)
              ELSE IF IsNumber(value)
                   THEN PyChain(target_value.l[1], value, target_value.l[2])
                   ELSE RetBool(FALSE)
    ELSE IF op = "not_between"
         THEN IF target_value.t # "list" \/ Len(target_value.l) # 2 THEN RetBool(FALSE)
              ELSE IF IsNumber(value)
                   THEN PyNot(PyChain(target_value.l[1], value, target_value.l[2]))
                   ELSE RetBool(TRUE)
    ELSE RetBool(FALSE)

-----------------------------------------------------------------------------
(* The md5 digest of a byte string, as an integer. The model keeps the     *)
(* digest's use (a fixed function of the bytes, reduced modulo HashSpace)  *)
(* and replaces its mixing by a polynomial fold.                           *)

RECURSIVE md5(_)
md5(bytes) ==
    IF bytes = <<>> THEN 7
    ELSE (md5(SubSeq(bytes, 1, Len(bytes) - 1)) * 31 + bytes[Len(bytes)]) % HashSpace

Alphabet == <<"a", "b", "e", "f", "r", "t", "x">>
CharCode(c) == CHOOSE i \in 1..Len(Alphabet) : Alphabet[i] = c
TagCode(t) == CASE t = "str" -> 34 [] t = "num" -> 48 [] t = "bool" -> 116 [] t = "list" -> 91

RECURSIVE Flatten(_)
Flatten(seqs) == IF seqs = <<>> THEN <<>> ELSE Head(seqs) \o Flatten(Tail(seqs))

\* json.dumps of one value
RECURSIVE dumps_value(_)
dumps_value(x) ==
    IF x.t = "str" THEN <<TagCode(x.t)>> \o [i \in 1..Len(x.s) |-> CharCode(x.s[i])]
    ELSE IF x.t = "list"
         THEN <<TagCode(x.t)>> \o Flatten([i \in 1..Len(x.l) |-> dumps_value(x.l[i])]) \o <<93>>
    ELSE <<TagCode(x.t), x.n>>

\* json.dumps(context, sort_keys=True): the keys present, in sorted order
SortedAttributes == <<"age", "plan">>
dumps(context) ==
    Flatten([i \in 1..Len(SortedAttributes) |->
        IF context[SortedAttributes[i]].t = "missing" THEN <<>>
        ELSE <<i>> \o dumps_value(context[SortedAttributes[i]])])

-----------------------------------------------------------------------------
(* TargetingService._evaluate_rule and evaluate_rules                      *)

Unset == -1     \* Optional[...] = None

TargetingRule(n, conds, pct, st, et, en) ==
    [name |-> n, conditions |-> conds, percentage |-> pct,
     start_time |-> st, end_time |-> et, enabled |-> en]

TargetingEvaluation(id, res, matched, unmatched) ==
    [rule_id |-> id, result |-> res,
     matched_conditions |-> matched, unmatched_conditions |-> unmatched]

RetEval(e) == [exc |-> "", val |-> e]
RaiseEval(e) == [exc |-> e, val |-> TargetingEvaluation("", FALSE, <<>>, <<>>)]

AttributesOf(conditions, idx) == [k \in 1..Len(idx) |-> conditions[idx[k]].attribute]

\* evaluate_rule that treats a rule with enabled = False as gated out
_evaluate_rule_enabled(r, context, utcnow) ==
    LET n == Len(r.conditions)
        evals == [i \in 1..n |-> _evaluate_condition(r.conditions[i], context)]
        indices == [i \in 1..n |-> i]
        matched_conditions ==
            AttributesOf(r.conditions, SelectSeq(indices, LAMBDA i : evals[i].val))
        unmatched_conditions ==
            AttributesOf(r.conditions, SelectSeq(indices, LAMBDA i : ~evals[i].val))
        gated == TargetingEvaluation(r.name, FALSE, <<>>, AttributesOf(r.conditions, indices))
        hash_int == md5(dumps(context))
    IN
    IF \E i \in 1..n : evals[i].exc # ""
    THEN RaiseEval(evals[CHOOSE i \in 1..n :
                            /\ evals[i].exc # ""
                            /\ \A j \in 1..(i - 1) : evals[j].exc = ""].exc)
    ELSE IF ~r.enabled THEN RetEval(gated)
    ELSE IF r.start_time # Unset /\ utcnow < r.start_time THEN RetEval(gated)
    ELSE IF r.end_time # Unset /\ utcnow > r.end_time THEN RetEval(gated)
    ELSE IF r.percentage # Unset /\ ~((hash_int % 100) < r.percentage) THEN RetEval(gated)
    ELSE RetEval(TargetingEvaluation(r.name, Len(matched_conditions) = n,
                                     matched_conditions, unmatched_conditions))

_evaluate_rule(r, context, utcnow) ==
    LET n == Len(r.conditions)
        evals == [i \in 1..n |-> _evaluate_condition(r.conditions[i], context)]
        indices == [i \in 1..n |-> i]
        matched_conditions ==
            AttributesOf(r.conditions, SelectSeq(indices, LAMBDA i : evals[i].val))
        unmatched_conditions ==
            AttributesOf(r.conditions, SelectSeq(indices, LAMBDA i : ~evals[i].val))
        gated == TargetingEvaluation(r.name, FALSE, <<>>, AttributesOf(r.conditions, indices))
        hash_int == md5(dumps(context))
    IN
    IF \E i \in 1..n : evals[i].exc # ""
    THEN RaiseEval(evals[CHOOSE i \in 1..n :
                            /\ evals[i].exc # ""
                            /\ \A j \in 1..(i - 1) : evals[j].exc = ""].exc)
    ELSE IF r.start_time # Unset /\ utcnow < r.start_time THEN RetEval(gated)
    ELSE IF r.end_time # Unset /\ utcnow > r.end_time THEN RetEval(gated)
    ELSE IF r.percentage # Unset /\ ~((hash_int % 100) < r.percentage) THEN RetEval(gated)
    ELSE RetEval(TargetingEvaluation(r.name, Len(matched_conditions) = n,
                                     matched_conditions, unmatched_conditions))

\* [self._evaluate_rule(rule, context) for rule in rules]: the list of the
\* evaluations, or the first exception raised
RetList(l) == [exc |-> "", val |-> l]
evaluate_rules(rs, context, utcnow) ==
    LET evaluations == [i \in 1..Len(rs) |-> _evaluate_rule(rs[i], context, utcnow)] IN
    IF \E i \in 1..Len(rs) : evaluations[i].exc # ""
    THEN [exc |-> evaluations[CHOOSE i \in 1..Len(rs) :
                                 /\ evaluations[i].exc # ""
                                 /\ \A j \in 1..(i - 1) : evaluations[j].exc = ""].exc,
          val |-> <<>>]
    ELSE RetList([i \in 1..Len(rs) |-> evaluations[i].val])

-----------------------------------------------------------------------------
(* The store's client (app/core/redis.py) and the `random` module.         *)

\* ConnectionPool.from_url(..., decode_responses=True): GET returns a str
decode_responses == TRUE

\* existing_assignment.decode(): bytes have decode(), a str has no such method
decode(value) == IF decode_responses THEN Raise("AttributeError") ELSE Ret(value)

\* random.seed(n), and one draw random.random() = k / RandomSteps with the
\* generator's next state
random_seed(n) == n % HashSpace
random_value(state) == (state * 5 + 3) % RandomSteps
random_next(state) == (state * 13 + 17) % HashSpace

-----------------------------------------------------------------------------
(* ABTestingService._calculate_variant_assignment                          *)

ExperimentStatus == {"draft", "running", "paused", "completed", "archived"}

Variant(n, w) == [name |-> n, weight |-> w]

Experiment(n, st, vs, trs) ==
    [name |-> n, status |-> st, variants |-> vs, targeting_rules |-> trs, metrics |-> <<>>,
     sample_size |-> Unset]

Utf8 == [e1 |-> <<5, 1>>, u1 |-> <<21, 1>>, u2 |-> <<21, 2>>, u3 |-> <<21, 3>>,
         u4 |-> <<21, 4>>, u5 |-> <<21, 5>>, u6 |-> <<21, 6>>, u7 |-> <<21, 7>>,
         u8 |-> <<21, 8>>]

RECURSIVE sum_weights(_, _)
sum_weights(variants, n) ==
    IF n = 0 THEN 0 ELSE sum_weights(variants, n - 1) + variants[n].weight

\* random.choices with bisect_left in place of bisect (bisect_right): the first
\* cumulative weight that is >= the draw
choices_bisect_left(variants, total_weight, k) ==
    LET n == Len(variants)
        before == {i \in 1..(n - 1) : sum_weights(variants, i) * RandomSteps >= k * total_weight}
    IN IF before = {} THEN variants[n].name
       ELSE variants[CHOOSE i \in before : \A j \in before : i <= j].name

\* random.choices(names, weights=[w / total], k=1)[0]: bisect of the cumulative
\* weights at random() * total, with hi = n - 1
choices(variants, total_weight, k) ==
    LET n == Len(variants)
        before == {i \in 1..(n - 1) : sum_weights(variants, i) * RandomSteps > k * total_weight}
    IN IF before = {} THEN variants[n].name
       ELSE variants[CHOOSE i \in before : \A j \in before : i <= j].name

\* the bucketing step without random.seed: the draw continues from the state
\* the previous call left
calculate_unseeded(exp, user_id, state) ==
    LET total_weight == sum_weights(exp.variants, Len(exp.variants)) IN
    IF exp.variants = <<>> THEN [exc |-> "ValueError", val |-> None, rng |-> state]
    ELSE IF total_weight = 0 THEN [exc |-> "ZeroDivisionError", val |-> None, rng |-> state]
    ELSE [exc |-> "",
          val |-> choices(exp.variants, total_weight, random_value(state)),
          rng |-> random_next(state)]

\* the bucketing step that falls back to the first variant when the weights
\* cannot be normalised
calculate_default_first(exp, user_id, state) ==
    LET seeded == random_seed(md5(Utf8[exp.name] \o <<58>> \o Utf8[user_id]))
        total_weight == sum_weights(exp.variants, Len(exp.variants))
    IN
    IF exp.variants = <<>> THEN [exc |-> "ValueError", val |-> None, rng |-> state]
    ELSE IF total_weight = 0 THEN [exc |-> "", val |-> exp.variants[1].name, rng |-> seeded]
    ELSE [exc |-> "",
          val |-> choices(exp.variants, total_weight, random_value(seeded)),
          rng |-> random_next(seeded)]

\* the result of the call and the state it leaves the `random` module in
_calculate_variant_assignment(exp, user_id, state) ==
    LET hash_input == Utf8[exp.name] \o <<58>> \o Utf8[user_id]
        hash_value == md5(hash_input)
        seeded == random_seed(hash_value)
        total_weight == sum_weights(exp.variants, Len(exp.variants))
    IN
    IF exp.variants = <<>> THEN [exc |-> "ValueError", val |-> None, rng |-> state]
    ELSE IF total_weight = 0 THEN [exc |-> "ZeroDivisionError", val |-> None, rng |-> seeded]
    ELSE [exc |-> "",
          val |-> choices(exp.variants, total_weight, random_value(seeded)),
          rng |-> random_next(seeded)]

-----------------------------------------------------------------------------
(* Requests: the names, users, contexts and bodies the callers send.       *)

ExperimentNames == {"e1"}
RuleNames == {"r1", "r2"}
Users == {"u1", "u2"}
Tasks == {"t1", "t2"}

\* keys experiment_metrics:{experiment}:{variant}:{metric} the callers write to;
\* no experiment "e2" is ever created
MetricKeys ==
    {<<"e1", "A", "clicked">>, <<"e1", "A", "revenue">>, <<"e1", "B", "clicked">>,
     <<"e2", "A", "clicked">>}
MetricInputs == {1, 3}

\* ids drawn by generate_user_id, and the addresses the callers register
UserIds == {"id1", "id2"}
Emails == {"a@x.io", "b@x.io"}

Context(plan, age) == [plan |-> plan, age |-> age]
Contexts == {Context(Missing, Missing), Context(beta, Missing), Context(beta, Num(5))}

VAB == <<Variant("A", 1), Variant("B", 1)>>
VBA == <<Variant("B", 1), Variant("A", 1)>>
VZero == <<Variant("A", 0), Variant("B", 0)>>
VEmpty == <<>>

\* One behaviour draws its requests from one workload: the operator edits the
\* status, the variants, or the targeting of the experiment.
Workloads == {"status", "variants", "targeting"}

\* bodies of create_experiment / update_experiment
ExperimentInputs(w) ==
    CASE w = "status" -> {[Experiment("e1", st, VAB, <<>>) EXCEPT !.sample_size = 1] :
                             st \in ExperimentStatus}
      [] w = "variants" -> {Experiment("e1", "running", vs, <<>>) : vs \in {VAB, VBA, VZero, VEmpty}}
      [] w = "targeting" ->
            {Experiment("e1", "running", VAB, trs) : trs \in {<<>>, <<"r1">>, <<"r1", "r2">>}}
            \cup {Experiment("e1", "running", VZero, <<"r1">>)}

\* bodies of create_rule / update_rule
RuleInputs(w, n) ==
    IF w # "targeting" THEN {}
    ELSE {TargetingRule(n, <<TargetingCondition("plan", "equals", beta)>>,
                        Unset, Unset, Unset, TRUE),
          TargetingRule(n, <<TargetingCondition("age", "greater_than", Str(<<"x">>))>>,
                        Unset, Unset, Unset, TRUE),
          TargetingRule(n, <<>>, Unset, 1, Unset, TRUE)}

\* contexts and users of assign_variant, and the tasks that serve the calls:
\* the calls run concurrently where the operator edits the variants
ContextInputs(w) == IF w = "targeting" THEN Contexts ELSE {Context(Missing, Missing)}
UserInputs(w) == IF w = "status" THEN Users ELSE {"u1"}
TasksOf(w) == IF w = "variants" THEN Tasks ELSE {"t1"}

-----------------------------------------------------------------------------
(* The store and the assign_variant coroutine.                             *)

\* hgetall of a missing key is the empty mapping; a stored hash is <<fields>>
NoHash == <<>>

Idle ==
    [pc |-> "idle", experiment_name |-> "e1", user_id |-> "u1",
     context |-> Context(Missing, Missing), experiment |-> NoHash,
     existing_assignment |-> None, rules |-> <<>>, variant_name |-> None,
     evaluated |-> FALSE, matched |-> FALSE, passed |-> FALSE, wrote |-> FALSE,
     outcome |-> Ret(None)]

\* a request of the operator or a register request between two of its store
\* operations: what it is, where it stands, and the name and body it carries
NoOperation == [op |-> "", pc |-> "idle", name |-> "", body |-> NoHash]

Init ==
    /\ experiment = [n \in ExperimentNames |-> NoHash]
    /\ experiments = {}
    /\ rule = [n \in RuleNames |-> NoHash]
    /\ rules = {}
    /\ assignment_key = [n \in ExperimentNames |-> [u \in Users |-> None]]
    /\ assignments_hash = [n \in ExperimentNames |-> [u \in Users |-> None]]
    /\ experiment_metrics = [k \in MetricKeys |-> <<>>]
    /\ user = [i \in UserIds |-> NoHash]
    /\ users = {}
    /\ email = [e \in Emails |-> None]
    /\ rng = 0
    /\ now = 0
    /\ calls = [t \in Tasks |-> Idle]
    /\ operations = [t \in Tasks |-> NoOperation]
    /\ budget \in {[workload |-> w, calls |-> 0, exp_ops |-> 0, rule_ops |-> 0,
                  metric_ops |-> 0, user_ops |-> 0] : w \in Workloads}
    /\ probe = [kind |-> "none"]

Finish(c, result) == [c EXCEPT !.pc = "done", !.outcome = result]

\* lines 109-115: get_experiment, and the status check
assign_variant(t, experiment_name, user_id, context) ==
    /\ calls[t].pc = "idle"
    /\ t \in TasksOf(budget.workload)
    /\ t = "t2" => calls["t1"].pc # "idle"     \* the tasks are interchangeable
    /\ \A o \in Tasks : calls[o].pc # "done"  \* finished calls have returned
    /\ budget.calls < MaxCalls
    /\ budget' = [budget EXCEPT !.calls = @ + 1]
    /\ LET c == [Idle EXCEPT !.experiment_name = experiment_name, !.user_id = user_id,
                             !.context = context,
                             !.experiment = experiment[experiment_name]]
       IN calls' = [calls EXCEPT ![t] =
            IF c.experiment = NoHash \/ c.experiment[1].status # "running"
            THEN Finish(c, Ret(None))
            ELSE [c EXCEPT !.pc = "get"]]
    /\ UNCHANGED <<operations, store, rng, now, probe>>

\* lines 117-122: the stickiness check
assign_get(t) ==
    /\ calls[t].pc = "get"
    /\ LET c == calls[t]
           existing_assignment == assignment_key[c.experiment_name][c.user_id]
       IN calls' = [calls EXCEPT ![t] =
            IF existing_assignment # None
            THEN Finish([c EXCEPT !.existing_assignment = existing_assignment],
                        decode(existing_assignment))
            ELSE IF c.experiment[1].targeting_rules # <<>>
                 THEN [c EXCEPT !.pc = "get_rule"]
                 ELSE [c EXCEPT !.pc = "assign"]]
    /\ UNCHANGED <<operations, store, rng, now, budget, probe>>

\* lines 127-130: one turn of the loop that resolves the rule names; c.rules
\* holds <<name, rule or NoHash>> for the names read so far
assign_get_rule(t) ==
    /\ calls[t].pc = "get_rule"
    /\ LET c == calls[t]
           rule_name == c.experiment[1].targeting_rules[Len(c.rules) + 1]
           read == Append(c.rules, rule[rule_name])
       IN calls' = [calls EXCEPT ![t] =
            [c EXCEPT !.rules = read,
                      !.pc = IF Len(read) = Len(c.experiment[1].targeting_rules)
                             THEN "assign" ELSE "get_rule"]]
    /\ UNCHANGED <<operations, store, rng, now, budget, probe>>

\* the rule list where a name that does not resolve stands for a rule without
\* conditions
Resolved_match_all(read) ==
    [i \in 1..Len(read) |->
        IF read[i] = NoHash THEN TargetingRule("", <<>>, Unset, Unset, Unset, TRUE)
        ELSE read[i][1]]

\* `if rule: rules.append(rule)`
Resolved(read) ==
    LET found == SelectSeq(read, LAMBDA h : h # NoHash) IN
    [i \in 1..Len(found) |-> found[i][1]]

\* some rule of the list evaluates to result true for the context
AnyRuleTrue(rs, context, utcnow) ==
    \E i \in 1..Len(rs) :
        LET e == _evaluate_rule(rs[i], context, utcnow) IN e.exc = "" /\ e.val.result

\* lines 132-137: evaluate_rules, the OR across the evaluations, and
\* _calculate_variant_assignment
assign_compute(t) ==
    /\ calls[t].pc = "assign"
    /\ LET c == calls[t]
           exp == c.experiment[1]
           evaluations == evaluate_rules(Resolved(c.rules), c.context, now)
           any == \E i \in 1..Len(evaluations.val) : evaluations.val[i].result
           calc == _calculate_variant_assignment(exp, c.user_id, rng)
           \* for the properties: the rules were evaluated; one of them is true
           d == [c EXCEPT !.evaluated = exp.targeting_rules # <<>>,
                          !.matched = AnyRuleTrue(Resolved(c.rules), c.context, now)]
       IN IF exp.targeting_rules # <<>> /\ evaluations.exc # ""
          THEN /\ calls' = [calls EXCEPT ![t] = Finish(d, Raise(evaluations.exc))]
               /\ rng' = rng
          ELSE IF exp.targeting_rules # <<>> /\ ~any
          THEN /\ calls' = [calls EXCEPT ![t] = Finish(d, Ret(None))]
               /\ rng' = rng
          ELSE /\ rng' = calc.rng
               /\ calls' = [calls EXCEPT ![t] =
                    IF calc.exc # ""
                    THEN Finish([d EXCEPT !.passed = TRUE], Raise(calc.exc))
                    ELSE [d EXCEPT !.passed = TRUE, !.variant_name = calc.val,
                                   !.pc = "set"]]
    /\ UNCHANGED <<operations, store, now, budget, probe>>

\* line 144: redis.set(assignment_key, variant_name)
assign_set(t) ==
    /\ calls[t].pc = "set"
    /\ LET c == calls[t] IN
       /\ assignment_key' =
            [assignment_key EXCEPT ![c.experiment_name][c.user_id] = c.variant_name]
       /\ calls' = [calls EXCEPT ![t] = [c EXCEPT !.pc = "hset", !.wrote = TRUE]]
    /\ UNCHANGED <<operations, experiment, experiments, rule, rules, assignments_hash,
                   experiment_metrics, user_store, rng, now, budget, probe>>

\* lines 145-151: redis.hset(experiment_assignments:{name}, user_id, ...)
assign_hset(t) ==
    /\ calls[t].pc = "hset"
    /\ LET c == calls[t] IN
       /\ assignments_hash' =
            [assignments_hash EXCEPT ![c.experiment_name][c.user_id] = c.variant_name]
       /\ calls' = [calls EXCEPT ![t] = Finish(c, Ret(c.variant_name))]
    /\ UNCHANGED <<operations, experiment, experiments, rule, rules, assignment_key,
                   experiment_metrics, user_store, rng, now, budget, probe>>

\* the caller takes the result; the task is free for the next request
assign_return(t) ==
    /\ calls[t].pc = "done"
    /\ calls' = [calls EXCEPT ![t] = Idle]
    /\ UNCHANGED <<operations, store, rng, now, budget, probe>>

-----------------------------------------------------------------------------
(* The operator's requests on experiments and rules, and the clock.        *)

\* lines 52-65
create_experiment(body) ==
    /\ budget.exp_ops < MaxExpOps
    /\ budget' = [budget EXCEPT !.exp_ops = @ + 1]
    /\ IF body.variants = <<>>
       THEN UNCHANGED <<experiment, experiments>>
       ELSE /\ experiment' = [experiment EXCEPT ![body.name] = <<body>>]
            /\ experiments' = experiments \cup {body.name}
    /\ UNCHANGED <<operations, rule, rules, assignment_key, assignments_hash, experiment_metrics, user_store, rng, now, calls, probe>>

\* lines 75-87: no validation of the body
update_experiment(name, body) ==
    /\ budget.exp_ops < MaxExpOps
    /\ budget' = [budget EXCEPT !.exp_ops = @ + 1]
    /\ experiment' = IF experiment[name] = NoHash THEN experiment
                     ELSE [experiment EXCEPT ![name] = <<body>>]
    /\ UNCHANGED <<operations, experiments, rule, rules, assignment_key, assignments_hash,
                   experiment_metrics, user_store, rng, now, calls, probe>>

\* lines 89-96: the assignment keys and hash are left in place
delete_experiment(name) ==
    /\ budget.exp_ops < MaxExpOps
    /\ budget' = [budget EXCEPT !.exp_ops = @ + 1]
    /\ IF experiment[name] = NoHash
       THEN UNCHANGED <<experiment, experiments>>
       ELSE /\ experiment' = [experiment EXCEPT ![name] = NoHash]
            /\ experiments' = experiments \ {name}
    /\ UNCHANGED <<operations, rule, rules, assignment_key, assignments_hash, experiment_metrics, user_store, rng, now, calls, probe>>

create_rule(body) ==
    /\ budget.rule_ops < MaxRuleOps
    /\ budget' = [budget EXCEPT !.rule_ops = @ + 1]
    /\ rule' = [rule EXCEPT ![body.name] = <<body>>]
    /\ rules' = rules \cup {body.name}
    /\ UNCHANGED <<operations, experiment, experiments, assignment_key, assignments_hash,
                   experiment_metrics, user_store, rng, now, calls, probe>>

update_rule(name, body) ==
    /\ budget.rule_ops < MaxRuleOps
    /\ budget' = [budget EXCEPT !.rule_ops = @ + 1]
    /\ rule' = IF rule[name] = NoHash THEN rule ELSE [rule EXCEPT ![name] = <<body>>]
    /\ UNCHANGED <<operations, experiment, experiments, rules, assignment_key, assignments_hash,
                   experiment_metrics, user_store, rng, now, calls, probe>>

delete_rule(name) ==
    /\ budget.rule_ops < MaxRuleOps
    /\ budget' = [budget EXCEPT !.rule_ops = @ + 1]
    /\ IF rule[name] = NoHash
       THEN UNCHANGED <<rule, rules>>
       ELSE /\ rule' = [rule EXCEPT ![name] = NoHash]
            /\ rules' = rules \ {name}
    /\ UNCHANGED <<operations, experiment, experiments, assignment_key, assignments_hash,
                   experiment_metrics, user_store, rng, now, calls, probe>>

Tick ==
    /\ budget.workload = "targeting"
    /\ now < MaxTime
    /\ now' = now + 1
    /\ UNCHANGED <<operations, store, rng, calls, budget, probe>>

Next ==
    \/ \E t \in Tasks, n \in ExperimentNames :
          \E u \in UserInputs(budget.workload), ctx \in ContextInputs(budget.workload) :
             assign_variant(t, n, u, ctx)
    \/ \E t \in Tasks : assign_get(t)
    \/ \E t \in Tasks : assign_get_rule(t)
    \/ \E t \in Tasks : assign_compute(t)
    \/ \E t \in Tasks : assign_set(t)
    \/ \E t \in Tasks : assign_hset(t)
    \/ \E t \in Tasks : assign_return(t)
    \/ \E body \in ExperimentInputs(budget.workload) : create_experiment(body)
    \/ \E n \in ExperimentNames : \E body \in ExperimentInputs(budget.workload) :
          update_experiment(n, body)
    \/ \E n \in ExperimentNames : delete_experiment(n)
    \/ \E n \in RuleNames : \E body \in RuleInputs(budget.workload, n) : create_rule(body)
    \/ \E n \in RuleNames : \E body \in RuleInputs(budget.workload, n) : update_rule(n, body)
    \/ \E n \in RuleNames : budget.workload = "targeting" /\ delete_rule(n)
    \/ Tick

Spec == Init /\ [][Next]_vars

-----------------------------------------------------------------------------
(* The evaluator applied to single conditions and rules.                   *)

ProbeValues ==
    {beta, be, Num(1), Num(5), Num(9), Num(10), Bool(TRUE), List(<<Num(1), Num(9)>>),
     List(<<beta>>), List(<<Str(<<"x">>), Num(9)>>)}

ProbeConditions ==
    {TargetingCondition(a, op, v) : a \in Attributes, op \in TargetingOperator, v \in ProbeValues}

ProbeContexts == {Context(p, a) : p \in ProbeValues \cup {Missing}, a \in {Missing, Num(5)}}

RuleConditions ==
    {TargetingCondition("plan", "equals", beta),
     TargetingCondition("plan", "not_in", List(<<beta>>)),
     TargetingCondition("age", "greater_than", Str(<<"x">>)),
     TargetingCondition("age", "less_than", Num(9))}

ProbeRules ==
    {TargetingRule("r1", conds, pct, st, et, en) :
        conds \in {<<>>} \cup {<<c>> : c \in RuleConditions}
                  \cup {<<c, d>> : c \in RuleConditions, d \in RuleConditions},
        pct \in {Unset, 0, 50, 100}, st \in {Unset, 1}, et \in {Unset, 0}, en \in BOOLEAN}

RuleContexts ==
    {Context(Missing, Missing), Context(beta, Missing), Context(free, Num(5)),
     Context(Missing, Num(5)), Context(beta, Num(5))}

ApplyEvaluateCondition(condition, context) ==
    /\ probe.kind = "none"
    /\ probe' = [kind |-> "condition", condition |-> condition, context |-> context,
                 result |-> _evaluate_condition(condition, context)]
    /\ UNCHANGED <<operations, store, rng, now, calls, budget>>

ApplyEvaluateRule(r, context, utcnow) ==
    /\ probe.kind = "none"
    /\ probe' = [kind |-> "rule", rule |-> r, context |-> context, utcnow |-> utcnow,
                 result |-> _evaluate_rule(r, context, utcnow)]
    /\ UNCHANGED <<operations, store, rng, now, calls, budget>>

NextEval ==
    \/ \E c \in ProbeConditions, ctx \in ProbeContexts : ApplyEvaluateCondition(c, ctx)
    \/ \E r \in ProbeRules, ctx \in RuleContexts, utcnow \in 0..MaxTime :
          ApplyEvaluateRule(r, ctx, utcnow)

SpecEval == Init /\ [][NextEval]_vars

-----------------------------------------------------------------------------
(* The bucketing step applied repeatedly in one process: every call leaves *)
(* the `random` module in a new state for the next one.                    *)

V3 == <<Variant("A", 1), Variant("B", 2), Variant("C", 1)>>
V0B == <<Variant("A", 0), Variant("B", 1)>>

CalcExperiments == {Experiment("e1", "running", vs, <<>>) : vs \in {VAB, VBA, V3, V0B, VZero, VEmpty}}

InitCalc ==
    /\ experiment = [n \in ExperimentNames |-> NoHash]
    /\ experiments = {}
    /\ rule = [n \in RuleNames |-> NoHash]
    /\ rules = {}
    /\ assignment_key = [n \in ExperimentNames |-> [u \in Users |-> None]]
    /\ assignments_hash = [n \in ExperimentNames |-> [u \in Users |-> None]]
    /\ experiment_metrics = [k \in MetricKeys |-> <<>>]
    /\ user = [i \in UserIds |-> NoHash]
    /\ users = {}
    /\ email = [e \in Emails |-> None]
    /\ rng \in 0..(HashSpace - 1)      \* seeded from the system's entropy at import
    /\ now = 0
    /\ calls = [t \in Tasks |-> Idle]
    /\ operations = [t \in Tasks |-> NoOperation]
    /\ budget = [workload |-> "status", calls |-> 0, exp_ops |-> 0, rule_ops |-> 0,
                  metric_ops |-> 0, user_ops |-> 0]
    /\ probe = [kind |-> "calc", log |-> {}]

ApplyCalculate(exp, user_id) ==
    LET r == _calculate_variant_assignment(exp, user_id, rng) IN
    /\ rng' = r.rng
    /\ probe' = [probe EXCEPT !.log = @ \cup
                    {[experiment |-> exp, user_id |-> user_id, exc |-> r.exc, val |-> r.val]}]
    /\ UNCHANGED <<operations, store, now, calls, budget>>

NextCalc == \E exp \in CalcExperiments, u \in Users : ApplyCalculate(exp, u)

SpecCalc == InitCalc /\ [][NextCalc]_vars

-----------------------------------------------------------------------------
(* Properties of the assignment engine.                                    *)

Done(t) == calls[t].pc = "done"
Running(c) == c.experiment # NoHash /\ c.experiment[1].status = "running"
WellFormed(vs) == vs # <<>> /\ sum_weights(vs, Len(vs)) > 0

\* C1: stickiness. A call on the running experiment that finds a persisted
\* assignment for its (experiment, user) returns that stored variant.
C1_Stickiness ==
    \A t \in Tasks :
        (Done(t) /\ calls[t].existing_assignment # None)
            => calls[t].outcome = Ret(calls[t].existing_assignment)

\* C2: write-once. The variant stored for an (experiment, user), under the
\* sticky key and in the assignments hash, never changes once written.
C2_WriteOnce ==
    [][\A n \in ExperimentNames, u \in Users :
          /\ assignment_key[n][u] # None => assignment_key'[n][u] = assignment_key[n][u]
          /\ assignments_hash[n][u] # None => assignments_hash'[n][u] = assignments_hash[n][u]
      ]_vars

\* C3: two overlapping calls for the same (experiment, user, context), on a
\* running, well-formed experiment that was created and never edited, both
\* return the same variant name, and the store holds that variant.
C3_DuplicatesConverge ==
    \A t \in Tasks, o \in Tasks :
        (/\ t # o /\ Done(t) /\ Done(o)
         /\ budget.exp_ops <= 1
         /\ calls[t].user_id = calls[o].user_id
         /\ calls[t].experiment_name = calls[o].experiment_name
         /\ calls[t].context = calls[o].context
         /\ calls[t].experiment = calls[o].experiment
         /\ Running(calls[t]) /\ WellFormed(calls[t].experiment[1].variants)
         /\ calls[t].experiment[1].targeting_rules = <<>>)
        => /\ calls[t].outcome.exc = "" /\ calls[t].outcome.val # None
           /\ calls[o].outcome = calls[t].outcome
           /\ assignment_key[calls[t].experiment_name][calls[t].user_id] = calls[t].outcome.val

\* C5: a call that finds the experiment absent or not running returns none,
\* raises nothing and writes nothing; a stored assignment is returned again by
\* a call that finds the experiment running.
C5_NotRunningIsNone ==
    \A t \in Tasks :
        /\ (Done(t) /\ ~Running(calls[t]))
              => calls[t].outcome = Ret(None) /\ ~calls[t].wrote
        /\ (Done(t) /\ Running(calls[t]) /\ calls[t].existing_assignment # None)
              => /\ calls[t].outcome.exc = ""
                 /\ calls[t].outcome.val = calls[t].existing_assignment

\* C6: when the running experiment declares targeting rules and none of them
\* evaluates true for the context, the call returns none and persists nothing;
\* a call whose context matches a rule of a well-formed experiment persists a
\* variant.
C6_NoMatchNoAssignment ==
    \A t \in Tasks :
        /\ (Done(t) /\ calls[t].evaluated /\ ~calls[t].matched)
              => calls[t].outcome = Ret(None) /\ ~calls[t].wrote
        /\ (Done(t) /\ calls[t].evaluated /\ calls[t].passed
            /\ WellFormed(calls[t].experiment[1].variants))
              => calls[t].outcome.exc = "" /\ calls[t].wrote

\* C7: OR across rules. For a running experiment with well-formed variants and
\* an unassigned user, the call assigns and persists a variant whenever at least
\* one resolved rule evaluates true, whatever the other rules evaluate to.
C7_OrAcrossRules ==
    \A t \in Tasks :
        (Done(t) /\ calls[t].evaluated /\ calls[t].matched
         /\ WellFormed(calls[t].experiment[1].variants))
        => /\ calls[t].outcome.exc = ""
           /\ calls[t].outcome.val # None
           /\ calls[t].wrote
           /\ assignment_key[calls[t].experiment_name][calls[t].user_id] # None

\* C10: configuration errors are refused. A call on a running experiment, for a
\* user without a stored assignment and with targeting passed, fails with an
\* error when the experiment has no variants or only zero weights: it returns
\* no variant name and persists nothing.
C10_ConfigurationErrorRefused ==
    \A t \in Tasks :
        (calls[t].passed /\ ~WellFormed(calls[t].experiment[1].variants))
        => /\ Done(t)
           /\ calls[t].outcome.exc \in {"ValueError", "ZeroDivisionError"}
           /\ calls[t].outcome.val = None
           /\ calls[t].variant_name = None
           /\ ~calls[t].wrote

C10_Witness ==
    \E t \in Tasks, o \in Tasks :
        /\ calls[t].passed /\ calls[t].experiment[1].variants = VEmpty
        /\ calls[t].outcome.exc = "ValueError"
        /\ calls[o].passed /\ calls[o].experiment[1].variants = VZero
        /\ calls[o].outcome.exc = "ZeroDivisionError"
        /\ assignment_key[calls[o].experiment_name][calls[o].user_id] = None

\* the users holding a stored assignment for the experiment
Participants(n) == {u \in Users : assignment_key[n][u] # None \/ assignments_hash[n][u] # None}

\* C24: sample_size is a cap on participation. When the experiment's
\* sample_size is set, the number of distinct users holding a stored assignment
\* for it never exceeds sample_size.
C24_SampleSizeCap ==
    \A n \in ExperimentNames :
        (experiment[n] # NoHash /\ experiment[n][1].sample_size # Unset)
            => Cardinality(Participants(n)) <= experiment[n][1].sample_size

Quiescent == \A t \in Tasks : calls[t].pc \in {"idle", "done"}

\* C25: the two assignment records agree. In every state with no assign_variant
\* call in progress, for every (experiment, user) the sticky key exists iff the
\* assignments hash has an entry for the user, and both name the same variant.
C25_RecordsAgree ==
    Quiescent =>
        \A n \in ExperimentNames, u \in Users : assignment_key[n][u] = assignments_hash[n][u]

\* C26: unresolvable targeting rules fail closed. A call on a running
\* experiment that declares targeting rules none of which exists in the store
\* returns none and persists nothing; names that do not resolve are skipped
\* without raising, and the outcome is decided by the resolved rules alone.
C26_UnresolvedFailClosed ==
    \A t \in Tasks :
        LET c == calls[t]
            resolved == SelectSeq(c.rules, LAMBDA h : h # NoHash)
            evaluated == [i \in 1..Len(resolved) |->
                            _evaluate_rule(resolved[i][1], c.context, now)]
        IN (Done(t) /\ c.evaluated) =>
              /\ (\A i \in 1..Len(c.rules) : c.rules[i] = NoHash)
                    => (c.outcome = Ret(None) /\ ~c.wrote)
              /\ c.outcome.exc # "" =>
                    \/ \E i \in 1..Len(resolved) : evaluated[i].exc = c.outcome.exc
                    \/ c.passed
              /\ (now = 0 /\ c.passed)
                    => \E i \in 1..Len(resolved) :
                           evaluated[i].exc = "" /\ evaluated[i].val.result

\* the experiment names r1 and r2, neither is stored, and the context would
\* match a rule on plan
C26_Witness ==
    \E t \in Tasks :
        /\ Done(t) /\ calls[t].evaluated
        /\ calls[t].rules = <<NoHash, NoHash>>
        /\ calls[t].context = Context(beta, Num(5))
        /\ calls[t].outcome = Ret(None)
        /\ assignment_key["e1"]["u1"] = None

-----------------------------------------------------------------------------
(* Properties of the bucketing step and of the evaluator.                  *)

\* C4: determinism of bucketing. For a fixed experiment name, user id and
\* ordered variant list with weights, every call returns the same result,
\* whatever calls were made in between.
C4_BucketingDeterministic ==
    probe.kind = "calc" =>
        \A a \in probe.log, b \in probe.log :
            (a.experiment = b.experiment /\ a.user_id = b.user_id)
                => (a.exc = b.exc /\ a.val = b.val)

C4_Witness ==
    /\ probe.kind = "calc"
    /\ \E a \in probe.log, b \in probe.log :
          /\ a.experiment.variants = VAB /\ b.experiment.variants = VAB
          /\ a.user_id # b.user_id /\ a.val # b.val /\ a.exc = "" /\ b.exc = ""
    /\ \E a \in probe.log : a.experiment.variants = V3 /\ a.val = "C"
    /\ Cardinality(probe.log) = 2 * Cardinality(CalcExperiments)

\* C8: fail-closed evaluation. A condition whose attribute is absent from the
\* context evaluates to false, for every operator and condition value; a rule
\* containing such a condition evaluates, without an exception, to result false
\* with that attribute among the unmatched conditions.
C8_FailClosed ==
    /\ (probe.kind = "condition"
        /\ probe.context[probe.condition.attribute].t = "missing")
          => probe.result = RetBool(FALSE)
    /\ probe.kind = "rule" =>
          \A i \in 1..Len(probe.rule.conditions) :
              probe.context[probe.rule.conditions[i].attribute].t = "missing"
              => /\ probe.result.exc = ""
                 /\ ~probe.result.val.result
                 /\ \E k \in 1..Len(probe.result.val.unmatched_conditions) :
                       probe.result.val.unmatched_conditions[k]
                           = probe.rule.conditions[i].attribute

\* C9: the condition evaluator never throws: for every operator and every pair
\* of context-value and condition-value types it returns a boolean.
C9_NeverThrows ==
    probe.kind = "condition" => probe.result.exc = ""

-----------------------------------------------------------------------------
(* The bucketing step applied once, from any state of the `random` module, *)
(* to variant lists with a zero weight first, in the middle and last.      *)

VA0C == <<Variant("A", 1), Variant("B", 0), Variant("C", 1)>>
VA0 == <<Variant("A", 1), Variant("B", 0)>>
V00C == <<Variant("A", 0), Variant("B", 0), Variant("C", 2)>>

BucketExperiments ==
    {Experiment("e1", "running", vs, <<>>) : vs \in {VAB, V3, V0B, VA0C, VA0, V00C, VZero}}
BucketUsers == {"u1", "u2", "u3", "u4", "u5", "u6", "u7", "u8"}

InitStore ==
    /\ experiment = [n \in ExperimentNames |-> NoHash]
    /\ experiments = {}
    /\ rule = [n \in RuleNames |-> NoHash]
    /\ rules = {}
    /\ assignment_key = [n \in ExperimentNames |-> [u \in Users |-> None]]
    /\ assignments_hash = [n \in ExperimentNames |-> [u \in Users |-> None]]
    /\ experiment_metrics = [k \in MetricKeys |-> <<>>]
    /\ user = [i \in UserIds |-> NoHash]
    /\ users = {}
    /\ email = [e \in Emails |-> None]
    /\ now = 0
    /\ calls = [t \in Tasks |-> Idle]
    /\ operations = [t \in Tasks |-> NoOperation]

InitBucket ==
    /\ InitStore
    /\ rng \in 0..(HashSpace - 1)
    /\ budget = [workload |-> "status", calls |-> 0, exp_ops |-> 0, rule_ops |-> 0,
                 metric_ops |-> 0, user_ops |-> 0]
    /\ probe = [kind |-> "none"]

ApplyBucket(exp, user_id) ==
    LET r == _calculate_variant_assignment(exp, user_id, rng) IN
    /\ probe.kind = "none"
    /\ rng' = r.rng
    /\ probe' = [kind |-> "bucket", experiment |-> exp, user_id |-> user_id,
                 exc |-> r.exc, val |-> r.val]
    /\ UNCHANGED <<operations, store, now, calls, budget>>

NextBucket == \E exp \in BucketExperiments, u \in BucketUsers : ApplyBucket(exp, u)

SpecBucket == InitBucket /\ [][NextBucket]_vars

\* C11: whenever the bucketing step is given a variant list with at least one
\* positive weight, it returns the name of a declared variant whose weight is
\* strictly positive: a zero-weight variant is never selected, wherever it
\* stands in the list.
C11_ZeroWeightNeverSelected ==
    (probe.kind = "bucket" /\ WellFormed(probe.experiment.variants))
    => /\ probe.exc = ""
       /\ \E i \in 1..Len(probe.experiment.variants) :
             probe.experiment.variants[i].name = probe.val
       /\ \A i \in 1..Len(probe.experiment.variants) :
             probe.experiment.variants[i].name = probe.val
                => probe.experiment.variants[i].weight > 0

\* the draw falls on the boundary of a zero-weight first variant (r = 0), and
\* the variant after it is returned
C11_Witness ==
    /\ probe.kind = "bucket"
    /\ probe.experiment.variants = V0B
    /\ random_value(random_seed(md5(Utf8["e1"] \o <<58>> \o Utf8[probe.user_id]))) = 0
    /\ probe.val = "B"

-----------------------------------------------------------------------------
(* ABTestingService.record_metric and get_experiment_results               *)

V1 == <<Variant("A", 1)>>

\* bodies of create_experiment / update_experiment where metrics are collected
ResultsInputs ==
    {[Experiment("e1", "running", V1, <<>>) EXCEPT !.metrics = <<"clicked">>],
     [Experiment("e1", "running", VAB, <<>>) EXCEPT !.metrics = <<"clicked", "revenue">>]}

MetricValue(e, v, m, x) ==
    [experiment_id |-> e, variant_name |-> v, metric_name |-> m, value |-> x]

\* record_metric that skips an observation equal to one already stored
record_metric_dedup(experiment_name, variant_name, metric_name, value) ==
    LET key == <<experiment_name, variant_name, metric_name>>
        metric == MetricValue(experiment_name, variant_name, metric_name, value)
    IN
    /\ budget.metric_ops < MaxMetrics
    /\ budget' = [budget EXCEPT !.metric_ops = @ + 1]
    /\ experiment_metrics' =
          IF \E i \in 1..Len(experiment_metrics[key]) : experiment_metrics[key][i] = metric
          THEN experiment_metrics
          ELSE [experiment_metrics EXCEPT ![key] = <<metric>> \o @]
    /\ UNCHANGED <<operations, experiment, experiments, rule, rules, assignment_key, assignments_hash,
                   user_store, rng, now, calls, probe>>

\* lines 153-170: redis.lpush puts the observation at the head of the list
record_metric(experiment_name, variant_name, metric_name, value) ==
    LET key == <<experiment_name, variant_name, metric_name>>
        metric == MetricValue(experiment_name, variant_name, metric_name, value)
    IN
    /\ budget.metric_ops < MaxMetrics
    /\ budget' = [budget EXCEPT !.metric_ops = @ + 1]
    /\ experiment_metrics' = [experiment_metrics EXCEPT ![key] = <<metric>> \o @]
    /\ UNCHANGED <<operations, experiment, experiments, rule, rules, assignment_key, assignments_hash,
                   user_store, rng, now, calls, probe>>

\* redis.lrange(key, 0, -1), empty for a key that was never written, and
\* [json.loads(v)["value"] for v in values]
lrange(key) == IF key \in DOMAIN experiment_metrics THEN experiment_metrics[key] ELSE <<>>
loaded_values(values) == [j \in 1..Len(values) |-> values[j].value]

RECURSIVE sum(_)
sum(xs) == IF xs = <<>> THEN 0 ELSE Head(xs) + sum(Tail(xs))

\* the mean weighted towards the head of the list (the latest observation
\* counts twice)
mean_recent(data) == [num |-> sum(data) + Head(data), den |-> Len(data) + 1]

\* statistics.mean: the exact quotient sum / n, kept as the pair (sum, n)
mean(data) == [num |-> sum(data), den |-> Len(data)]

\* statistics.stdev: the sample standard deviation, kept as its square
\* (n * sum(x^2) - sum(x)^2) / (n * (n - 1)); fewer than two values raise
stdev(data) ==
    LET n == Len(data)
        squares == [j \in 1..n |-> data[j] * data[j]]
    IN IF n < 2 THEN [exc |-> "StatisticsError", sq_num |-> 0, sq_den |-> 1]
       ELSE [exc |-> "", sq_num |-> n * sum(squares) - sum(data) * sum(data),
             sq_den |-> n * (n - 1)]

\* the interval with the guard `if len(metric_values) > 1` dropped
confidence_interval_unguarded(metric_values) ==
    LET sd == stdev(metric_values) IN
    [exc |-> sd.exc, sq_num |-> 196 * 196 * sd.sq_num,
     sq_den |-> 100 * 100 * sd.sq_den * Len(metric_values)]

\* lines 210-213: 1.96 * (stdev / len ** 0.5), kept as its square
confidence_interval(metric_values) ==
    LET sd == IF Len(metric_values) > 1 THEN stdev(metric_values)
              ELSE [exc |-> "", sq_num |-> 0, sq_den |-> 1]
    IN [exc |-> sd.exc, sq_num |-> 196 * 196 * sd.sq_num,
        sq_den |-> 100 * 100 * sd.sq_den * Len(metric_values)]

\* the users of every variant, whatever variant they were assigned
variant_users_all(assignments, variant_name) ==
    {u \in DOMAIN assignments : assignments[u] # None}

\* lines 187-191: the users whose assignment record names the variant
variant_users(assignments, variant_name) ==
    {u \in DOMAIN assignments : assignments[u] # None /\ assignments[u] = variant_name}

\* lines 197-206: the list read once for every user of the variant
RECURSIVE extend(_, _, _)
extend(metric_values, values, times) ==
    IF times = 0 THEN metric_values
    ELSE extend(metric_values \o loaded_values(values), values, times - 1)

gather(experiment_name, variant_name, metric_name, users_of_variant) ==
    extend(<<>>, lrange(<<experiment_name, variant_name, metric_name>>),
           Cardinality(users_of_variant))

\* the metrics mapping with every declared metric present, 0 where no value
\* was gathered
variant_metrics_zero_filled(experiment_name, variant_name, metric_names, users_of_variant) ==
    LET names == {metric_names[i] : i \in 1..Len(metric_names)} IN
    [m \in names |->
        LET metric_values == gather(experiment_name, variant_name, m, users_of_variant) IN
        IF metric_values = <<>>
        THEN [value |-> [num |-> 0, den |-> 1],
              confidence_interval |-> [exc |-> "", sq_num |-> 0, sq_den |-> 1], n |-> 0]
        ELSE [value |-> mean(metric_values),
              confidence_interval |-> confidence_interval(metric_values),
              n |-> Len(metric_values)]]

\* lines 195-218: the metrics mapping of one variant; n is len(metric_values)
variant_metrics(experiment_name, variant_name, metric_names, users_of_variant) ==
    LET names == {metric_names[i] : i \in 1..Len(metric_names)}
        present == {m \in names :
                      gather(experiment_name, variant_name, m, users_of_variant) # <<>>}
    IN
    [m \in present |->
        LET metric_values == gather(experiment_name, variant_name, m, users_of_variant) IN
        [value |-> mean(metric_values),
         confidence_interval |-> confidence_interval(metric_values),
         n |-> Len(metric_values)]]

ExperimentResult(id, v, total, metrics) ==
    [experiment_id |-> id, variant_name |-> v, total_users |-> total, metrics |-> metrics]

\* lines 172-230; the response is kept with the store as it was at the call
get_experiment_results(experiment_name) ==
    LET exp == experiment[experiment_name]
        results ==
            [i \in 1..Len(exp[1].variants) |->
                LET variant == exp[1].variants[i]
                    users_of_variant ==
                        variant_users(assignments_hash[experiment_name], variant.name)
                IN ExperimentResult(experiment_name, variant.name,
                                    Cardinality(users_of_variant),
                                    variant_metrics(experiment_name, variant.name,
                                                    exp[1].metrics, users_of_variant))]
        raised == {e \in {"StatisticsError"} :
                     \E i \in 1..Len(results) : \E m \in DOMAIN results[i].metrics :
                        results[i].metrics[m].confidence_interval.exc = e}
    IN
    /\ probe.kind = "none"
    /\ probe' = [kind |-> "results", experiment_name |-> experiment_name,
                 before |-> store,
                 result |-> IF exp = NoHash THEN RetList(<<>>)
                            ELSE IF raised # {} THEN [exc |-> "StatisticsError", val |-> <<>>]
                            ELSE RetList(results)]
    /\ UNCHANGED <<operations, store, rng, now, calls, budget>>

InitResults ==
    /\ InitStore
    /\ rng = 0
    /\ budget = [workload |-> "results", calls |-> 0, exp_ops |-> 0, rule_ops |-> 0,
                 metric_ops |-> 0, user_ops |-> 0]
    /\ probe = [kind |-> "none"]

\* the requests of one behaviour, closed by one get_experiment_results
NextResults ==
    \/ \E u \in Users :
          probe.kind = "none" /\ assign_variant("t1", "e1", u, Context(Missing, Missing))
    \/ probe.kind = "none" /\ assign_get("t1")
    \/ probe.kind = "none" /\ assign_compute("t1")
    \/ probe.kind = "none" /\ assign_set("t1")
    \/ probe.kind = "none" /\ assign_hset("t1")
    \/ probe.kind = "none" /\ assign_return("t1")
    \/ \E body \in ResultsInputs : probe.kind = "none" /\ create_experiment(body)
    \/ \E body \in ResultsInputs : probe.kind = "none" /\ update_experiment("e1", body)
    \/ \E key \in MetricKeys, x \in MetricInputs :
          probe.kind = "none" /\ record_metric(key[1], key[2], key[3], x)
    \/ \E n \in ExperimentNames : get_experiment_results(n)

SpecResults == InitResults /\ [][NextResults]_vars

-----------------------------------------------------------------------------
(* Properties of record_metric and get_experiment_results.                 *)

HasResults == probe.kind = "results" /\ experiment[probe.experiment_name] # NoHash
Declared == experiment[probe.experiment_name][1]
DeclaredMetrics == {Declared.metrics[k] : k \in 1..Len(Declared.metrics)}
\* the observations stored under (experiment, variant of result r, metric m)
Observations(r, m) == loaded_values(lrange(<<probe.experiment_name, r.variant_name, m>>))

\* C12: record_metric is append-only and never rejected. Every call, whether
\* or not the experiment, variant and metric exist and also for a duplicate of
\* an earlier observation, adds exactly one observation to the list of its
\* (experiment, variant, metric), leaves the observations already there as
\* they were, and changes no other key.
C12_RecordMetricAppends ==
    [][budget'.metric_ops # budget.metric_ops =>
          /\ \E key \in MetricKeys :
                /\ Len(experiment_metrics'[key]) = Len(experiment_metrics[key]) + 1
                /\ Tail(experiment_metrics'[key]) = experiment_metrics[key]
                /\ \A other \in MetricKeys \ {key} :
                      experiment_metrics'[other] = experiment_metrics[other]
          /\ UNCHANGED <<experiment, experiments, rule, rules, assignment_key,
                         assignments_hash, user_store>>
      ]_vars

\* a duplicate observation is stored twice, and an observation is stored for
\* an experiment that does not exist
C12_Witness ==
    /\ \E key \in MetricKeys :
          /\ Len(experiment_metrics[key]) >= 2
          /\ experiment_metrics[key][1] = experiment_metrics[key][2]
    /\ experiment_metrics[<<"e2", "A", "clicked">>] # <<>>
    /\ experiment["e1"] = NoHash

\* C13: get_experiment_results returns one result per declared variant, in
\* declaration order; each total_users is the number of stored assignment
\* records of the experiment that name the variant; the result is the empty
\* list for an absent experiment; the store is left as it was.
C13_ResultsPerVariant ==
    probe.kind = "results" =>
        /\ probe.result.exc = ""
        /\ store = probe.before
        /\ experiment[probe.experiment_name] = NoHash => probe.result.val = <<>>
        /\ experiment[probe.experiment_name] # NoHash =>
              /\ Len(probe.result.val) = Len(Declared.variants)
              /\ \A i \in 1..Len(Declared.variants) :
                    /\ probe.result.val[i].variant_name = Declared.variants[i].name
                    /\ probe.result.val[i].total_users =
                          Cardinality({u \in Users :
                              assignments_hash[probe.experiment_name][u]
                                  = Declared.variants[i].name})

\* two users hold variant A and the experiment also declares B
C13_Witness ==
    /\ HasResults
    /\ Len(probe.result.val) = 2
    /\ probe.result.val[1].variant_name = "A" /\ probe.result.val[1].total_users = 2
    /\ probe.result.val[2].variant_name = "B" /\ probe.result.val[2].total_users = 0

\* C14: zero-observation omission. A declared metric with no observation
\* recorded under (experiment, variant, metric) is absent from that variant's
\* metrics mapping.
C14_ZeroObservationOmitted ==
    HasResults =>
        \A i \in 1..Len(probe.result.val) : \A m \in DeclaredMetrics :
            Observations(probe.result.val[i], m) = <<>>
                => m \notin DOMAIN probe.result.val[i].metrics

\* a variant with a user reports the metric that was observed and omits the
\* declared one that was not
C14_Witness ==
    /\ HasResults
    /\ DeclaredMetrics = {"clicked", "revenue"}
    /\ \E i \in 1..Len(probe.result.val) :
          /\ probe.result.val[i].total_users >= 1
          /\ DOMAIN probe.result.val[i].metrics = {"clicked"}

\* C15: confidence-interval boundary. For a variant with at least one user,
\* when one observation is recorded under (experiment, variant, metric), or all
\* the recorded observations have the same value, the reported interval is 0
\* and the reported mean is that value.
C15_IntervalBoundary ==
    probe.kind = "results" =>
        /\ probe.result.exc = ""
        /\ HasResults =>
              \A i \in 1..Len(probe.result.val) : \A m \in DeclaredMetrics :
                  LET r == probe.result.val[i]
                      obs == Observations(r, m)
                  IN (/\ r.total_users >= 1
                      /\ obs # <<>>
                      /\ \A j \in 1..Len(obs) : obs[j] = obs[1])
                     => /\ m \in DOMAIN r.metrics
                        /\ r.metrics[m].confidence_interval.sq_num = 0
                        /\ r.metrics[m].value.num = obs[1] * r.metrics[m].value.den

\* one user, the value 1 recorded three times; and one user with a single
\* observation
C15_Witness ==
    /\ HasResults
    /\ \E i \in 1..Len(probe.result.val) :
          LET r == probe.result.val[i] IN
          /\ r.total_users = 1
          /\ Observations(r, "clicked") = <<1, 1, 1>>
          /\ r.metrics["clicked"].confidence_interval.sq_num = 0
          /\ r.metrics["clicked"].value = [num |-> 3, den |-> 3]

\* C17: the sample behind a (variant, metric) holds every observation recorded
\* under (experiment, variant, metric) exactly once: its size is the number of
\* record_metric calls for the triple, however many users hold the variant.
C17_SampleIsTheObservations ==
    HasResults =>
        \A i \in 1..Len(probe.result.val) : \A m \in DeclaredMetrics :
            LET r == probe.result.val[i]
                obs == Observations(r, m)
            IN obs # <<>> => /\ m \in DOMAIN r.metrics
                             /\ r.metrics[m].n = Len(obs)

-----------------------------------------------------------------------------
(* UserService.create_user, get_user_by_id and get_user_by_email           *)

UserRole == {"admin", "manager", "viewer"}

\* UserCreate: role and is_active default to viewer and True
UserCreate(e, n, r, a) == [email |-> e, full_name |-> n, role |-> r, is_active |-> a]
DefaultRole == "viewer"
UserInputs_create ==
    {UserCreate(e, n, r, a) :
        e \in Emails, n \in {"Test User", ""}, r \in {DefaultRole, "admin"}, a \in BOOLEAN}

UserInDB(id, e, n, r, a, h, l) ==
    [id |-> id, email |-> e, full_name |-> n, role |-> r, is_active |-> a,
     hashed_password |-> h, last_login |-> l]
NoUser == UserInDB("", "", "", "", FALSE, "", "")

\* str(bool) and str.lower()
str(b) == IF b THEN "True" ELSE "False"
lower(x) == CASE x = "True" -> "true" [] x = "False" -> "false" [] OTHER -> x

\* lines 39-49: the stored mapping; None is written as the empty string
user_dict(u) ==
    [id |-> u.id, email |-> u.email, full_name |-> u.full_name, role |-> u.role,
     is_active |-> str(u.is_active), hashed_password |-> u.hashed_password,
     last_login |-> IF u.last_login = None THEN "" ELSE u.last_login]

\* lines 23-63; id is the fresh uuid4 of generate_user_id
create_user(body, id) ==
    LET user_in_db == UserInDB(id, body.email, body.full_name, body.role, body.is_active,
                               "hashed", None)
    IN
    /\ budget.user_ops < MaxUsers
    /\ user[id] = NoHash
    /\ budget' = [budget EXCEPT !.user_ops = @ + 1]
    /\ user' = [user EXCEPT ![id] = <<user_dict(user_in_db)>>]
    /\ users' = users \cup {id}
    /\ email' = [email EXCEPT ![body.email] = id]
    /\ probe' = [kind |-> "created", body |-> body, user |-> user_in_db,
                 before |-> user_store]
    /\ UNCHANGED <<experiment, experiments, rule, rules, assignment_key, assignments_hash,
                   experiment_metrics, rng, now, calls>>

\* lines 70-109: the stored strings converted back; every empty string is read
\* as None, and UserInDB(**user_data) rejects None for a required str field
get_user_by_id(user_id) ==
    IF user[user_id] = NoHash THEN [exc |-> "", found |-> FALSE, val |-> NoUser]
    ELSE LET user_data == user[user_id][1]
             none(x) == IF x = "" THEN None ELSE x
             loaded == UserInDB(none(user_data.id), none(user_data.email),
                                none(user_data.full_name), none(user_data.role),
                                lower(user_data.is_active) = "true",
                                none(user_data.hashed_password),
                                none(user_data.last_login))
         IN IF None \in {loaded.id, loaded.email, loaded.full_name, loaded.role,
                         loaded.hashed_password}
            THEN [exc |-> "ValidationError", found |-> FALSE, val |-> NoUser]
            ELSE [exc |-> "", found |-> TRUE, val |-> loaded]

\* lines 111-127, called for the address of the user just created or another
get_user_by_email(e) ==
    /\ probe.kind = "created"
    /\ probe' = [kind |-> "lookup", created |-> probe, email |-> e,
                 result |-> IF email[e] = None
                            THEN [exc |-> "", found |-> FALSE, val |-> NoUser]
                            ELSE get_user_by_id(email[e])]
    /\ UNCHANGED <<operations, store, rng, now, calls, budget>>

InitUser ==
    /\ InitStore
    /\ rng = 0
    /\ budget = [workload |-> "users", calls |-> 0, exp_ops |-> 0, rule_ops |-> 0,
                 metric_ops |-> 0, user_ops |-> 0]
    /\ probe = [kind |-> "none"]

NextUser ==
    \/ \E body \in UserInputs_create, id \in UserIds :
          create_user(body, id) /\ UNCHANGED operations
    \/ \E e \in Emails : get_user_by_email(e)

SpecUser == InitUser /\ [][NextUser]_vars

\* C16: create_user writes the hash user:{id} once, adds the id once to the set
\* users and sets email:{email} to the id once; when it has returned, the user
\* is stored under its id, is a member of users, and get_user_by_email(email)
\* resolves to that id; the returned user keeps the supplied email and full
\* name and, for a request that leaves the defaults, is active with role viewer.
C16_CreateUserReachable ==
    /\ probe.kind = "created" =>
          /\ user[probe.user.id] # NoHash
          /\ \A i \in UserIds \ {probe.user.id} : user[i] = probe.before[1][i]
          /\ probe.user.id \notin probe.before[2]
          /\ users = probe.before[2] \cup {probe.user.id}
          /\ email[probe.body.email] = probe.user.id
          /\ \A e \in Emails \ {probe.body.email} : email[e] = probe.before[3][e]
          /\ probe.user.email = probe.body.email
          /\ probe.user.full_name = probe.body.full_name
          /\ (probe.body.is_active /\ probe.body.role = DefaultRole)
                => (probe.user.is_active /\ probe.user.role = "viewer")
    /\ (probe.kind = "lookup" /\ probe.email = probe.created.body.email) =>
          /\ probe.result.exc = ""
          /\ probe.result.found
          /\ probe.result.val.id = probe.created.user.id

-----------------------------------------------------------------------------
(* Properties of the operators of the condition evaluator and of the       *)
(* evaluation a rule returns.                                              *)

Present == probe.kind = "condition" /\ probe.context[probe.condition.attribute].t # "missing"
ContextValue == probe.context[probe.condition.attribute]
IsRange(x) == x.t = "list" /\ Len(x.l) = 2

\* C18: type-mismatch outcomes for a present attribute. contains is false and
\* not_contains is true when the context value is neither list nor string;
\* between is false and not_between is true when the context value is not
\* numeric or condition.value is not a 2-element list.
C18_TypeMismatchTable ==
    Present =>
        LET op == probe.condition.operator
            mismatch_contains == ~IsListOrStr(ContextValue)
            mismatch_between == ~IsNumber(ContextValue) \/ ~IsRange(probe.condition.value)
        IN /\ (op = "contains" /\ mismatch_contains) => probe.result = RetBool(FALSE)
           /\ (op = "not_contains" /\ mismatch_contains) => probe.result = RetBool(TRUE)
           /\ (op = "between" /\ mismatch_between) => probe.result = RetBool(FALSE)
           /\ (op = "not_between" /\ mismatch_between) => probe.result = RetBool(TRUE)

\* the operands an operator is defined on
WellTyped(op, value, target_value) ==
    CASE op \in {"equals", "not_equals"} -> TRUE
      [] op \in {"contains", "not_contains"} ->
            value.t = "list" \/ (value.t = "str" /\ target_value.t = "str")
      [] op \in {"in", "not_in"} -> target_value.t = "list"
      [] op \in {"between", "not_between"} ->
            /\ IsRange(target_value) /\ IsNumber(value)
            /\ IsNumber(target_value.l[1]) /\ IsNumber(target_value.l[2])
      [] OTHER -> FALSE

Positive(op) ==
    CASE op = "not_equals" -> "equals" [] op = "not_contains" -> "contains"
      [] op = "not_in" -> "in" [] op = "not_between" -> "between"

\* C19: for a present attribute and well-typed operands, not_equals,
\* not_contains, not_in and not_between return the negation of what equals,
\* contains, in and between return for the same condition value and context;
\* between is lo <= value <= hi, inclusive at both bounds; in and not_in are
\* both false when condition.value is not a list.
C19_NegationIsExact ==
    Present =>
        LET op == probe.condition.operator
            target_value == probe.condition.value
        IN /\ (op \in {"not_equals", "not_contains", "not_in", "not_between"}
               /\ WellTyped(op, ContextValue, target_value))
              => LET positive == _evaluate_condition(
                        [probe.condition EXCEPT !.operator = Positive(op)], probe.context)
                 IN /\ probe.result.exc = "" /\ positive.exc = ""
                    /\ probe.result.val = ~positive.val
           /\ (op = "between" /\ WellTyped(op, ContextValue, target_value))
              => probe.result = RetBool(/\ target_value.l[1].n <= ContextValue.n
                                        /\ ContextValue.n <= target_value.l[2].n)
           /\ (op = "equals") => probe.result = RetBool(PyEq(ContextValue, target_value))
           /\ (op \in {"in", "not_in"} /\ target_value.t # "list")
              => probe.result = RetBool(FALSE)

\* the context value is the upper bound of the range: not_between is false
C19_Witness ==
    /\ Present
    /\ probe.condition.operator = "not_between"
    /\ probe.condition.value = List(<<Num(1), Num(9)>>)
    /\ ContextValue = Num(9)
    /\ probe.result = RetBool(FALSE)

\* the rule is inside its time window and its percentage admits the context
PassesGating(r, context, utcnow) ==
    /\ ~(r.start_time # Unset /\ utcnow < r.start_time)
    /\ ~(r.end_time # Unset /\ utcnow > r.end_time)
    /\ ~(r.percentage # Unset /\ ~((md5(dumps(context)) % 100) < r.percentage))

\* C20: for a rule that passes time and percentage gating, evaluate_rule
\* reports every condition's attribute in exactly one of matched_conditions and
\* unmatched_conditions, in condition order, one entry per condition; result is
\* true iff unmatched_conditions is empty; an empty condition list gives result
\* true. For every evaluation, result true implies unmatched_conditions empty.
C20_MatchedUnmatchedPartition ==
    probe.kind = "rule" =>
        LET n == Len(probe.rule.conditions)
            indices == [i \in 1..n |-> i]
            e == probe.result.val
        IN /\ PassesGating(probe.rule, probe.context, probe.utcnow) =>
                /\ probe.result.exc = ""
                /\ \E b \in [1..n -> BOOLEAN] :
                      /\ e.matched_conditions =
                            AttributesOf(probe.rule.conditions,
                                         SelectSeq(indices, LAMBDA i : b[i]))
                      /\ e.unmatched_conditions =
                            AttributesOf(probe.rule.conditions,
                                         SelectSeq(indices, LAMBDA i : ~b[i]))
                /\ e.result <=> (e.unmatched_conditions = <<>>)
                /\ n = 0 => e.result
           /\ (probe.result.exc = "" /\ e.result) => e.unmatched_conditions = <<>>

-----------------------------------------------------------------------------
(* Properties of the gating of a rule.                                     *)

AllAttributes(r) == [i \in 1..Len(r.conditions) |-> r.conditions[i].attribute]
GatedOut(r) == RetEval(TargetingEvaluation(r.name, FALSE, <<>>, AllAttributes(r)))
ConditionsHold(r, context) ==
    \A i \in 1..Len(r.conditions) :
        _evaluate_condition(r.conditions[i], context) = RetBool(TRUE)
BeforeStart(r, utcnow) == r.start_time # Unset /\ utcnow < r.start_time
AfterEnd(r, utcnow) == r.end_time # Unset /\ utcnow > r.end_time

\* C21: time gating. When start_time is set and now < start_time, or end_time
\* is set and now > end_time, evaluate_rule returns result false with
\* matched_conditions empty and every condition's attribute unmatched, whether
\* or not the conditions match; at now = start_time or now = end_time the rule
\* is not gated out, and an unset bound never gates.
C21_TimeGating ==
    probe.kind = "rule" =>
        LET r == probe.rule IN
        /\ (BeforeStart(r, probe.utcnow) \/ AfterEnd(r, probe.utcnow))
              => probe.result = GatedOut(r)
        /\ (~BeforeStart(r, probe.utcnow) /\ ~AfterEnd(r, probe.utcnow)
            /\ r.percentage = Unset)
              => /\ probe.result.exc = ""
                 /\ probe.result.val.result = ConditionsHold(r, probe.context)

\* the bucket of a context: md5 of its key-sorted JSON text, modulo 100
bucket(context) == md5(dumps(context)) % 100

\* C22: percentage gating is a function of the context alone. For a rule with
\* percentage p set (and inside its time window) the gate passes iff
\* bucket(context) < p, with bucket in 0..99 computed from the key-sorted
\* context only; p = 0 always gives result false, p = 100 never gates, and the
\* side of the gate does not change with the rule name or the time.
C22_PercentageGating ==
    (/\ probe.kind = "rule" /\ probe.rule.percentage # Unset
     /\ ~BeforeStart(probe.rule, probe.utcnow) /\ ~AfterEnd(probe.rule, probe.utcnow))
    => LET r == probe.rule
           b == bucket(probe.context)
           open == [r EXCEPT !.percentage = Unset, !.start_time = Unset, !.end_time = Unset]
       IN /\ b \in 0..99
          /\ b < r.percentage => probe.result = _evaluate_rule(open, probe.context, 0)
          /\ ~(b < r.percentage) => probe.result = GatedOut(r)
          /\ r.percentage = 0 => (probe.result.exc = "" /\ ~probe.result.val.result)
          /\ r.percentage = 100 => probe.result = _evaluate_rule(open, probe.context, 0)
          /\ \A other \in RuleNames :
                LET renamed == _evaluate_rule([open EXCEPT !.name = other,
                                                          !.percentage = r.percentage],
                                              probe.context, MaxTime - probe.utcnow)
                IN (renamed.exc = "" /\ probe.result.exc = "")
                   => (renamed.val.unmatched_conditions = probe.result.val.unmatched_conditions
                       /\ renamed.val.result = probe.result.val.result)

\* C29: the enabled flag has no effect on evaluation. For every rule, context
\* and time, evaluate_rule returns the same result, matched_conditions and
\* unmatched_conditions (or raises the same error) with enabled true and false:
\* a disabled rule whose conditions match evaluates true.
C29_EnabledIgnored ==
    probe.kind = "rule" =>
        probe.result = _evaluate_rule([probe.rule EXCEPT !.enabled = ~@],
                                      probe.context, probe.utcnow)

\* a disabled rule, not gated, whose condition matches: result true
C29_Witness ==
    /\ probe.kind = "rule"
    /\ ~probe.rule.enabled
    /\ probe.rule.conditions = <<TargetingCondition("plan", "equals", beta)>>
    /\ probe.context = Context(beta, Missing)
    /\ probe.result.exc = "" /\ probe.result.val.result
    /\ probe.result.val.matched_conditions = <<"plan">>

-----------------------------------------------------------------------------
(* Order of the record_metric calls.                                       *)

\* the list a key would hold had its record_metric calls been applied in
\* another order: lpush stores them in reverse order of arrival
Reordered(values, p) == [j \in 1..Len(values) |-> values[p[j]]]

\* C23: metric recording is commutative. Whatever the order in which the
\* record_metric calls of a behaviour were applied, get_experiment_results
\* returns the same output: the same metrics present, the same mean and
\* confidence interval for each, the same total_users.
C23_RecordingCommutes ==
    HasResults =>
        /\ probe.result.exc = ""
        /\ \A i \in 1..Len(probe.result.val) : \A m \in DeclaredMetrics :
              LET r == probe.result.val[i]
                  values == lrange(<<probe.experiment_name, r.variant_name, m>>)
              IN \A p \in Permutations(1..Len(values)) :
                    LET metric_values == extend(<<>>, Reordered(values, p), r.total_users)
                    IN IF metric_values = <<>> THEN m \notin DOMAIN r.metrics
                       ELSE /\ m \in DOMAIN r.metrics
                            /\ r.metrics[m].value = mean(metric_values)
                            /\ r.metrics[m].confidence_interval
                                  = confidence_interval(metric_values)

\* three observations 1, 3, 3 of one metric arrived in an order that matters
\* to the stored list; the interval is not 0
C23_Witness ==
    /\ HasResults
    /\ \E i \in 1..Len(probe.result.val) :
          LET r == probe.result.val[i] IN
          /\ r.total_users = 1
          /\ Observations(r, "clicked") = <<3, 1, 3>>
          /\ r.metrics["clicked"].value = [num |-> 7, den |-> 3]
          /\ r.metrics["clicked"].confidence_interval.sq_num > 0


-----------------------------------------------------------------------------
(* delete_experiment followed by create_experiment under the same name.    *)

VB == <<Variant("B", 1)>>

\* bodies of the experiment before and after it is deleted
DeleteInputs ==
    {[Experiment("e1", "running", vs, <<>>) EXCEPT !.metrics = <<"clicked">>] :
        vs \in {V1, VB}}

\* the operator creates the experiment, deletes it and creates it again; users
\* are assigned and observations recorded in between
NextDelete ==
    \/ \E u \in Users :
          probe.kind = "none" /\ assign_variant("t1", "e1", u, Context(Missing, Missing))
    \/ probe.kind = "none" /\ assign_get("t1")
    \/ probe.kind = "none" /\ assign_compute("t1")
    \/ probe.kind = "none" /\ assign_set("t1")
    \/ probe.kind = "none" /\ assign_hset("t1")
    \/ probe.kind = "none" /\ assign_return("t1")
    \/ \E body \in DeleteInputs :
          probe.kind = "none" /\ experiment[body.name] = NoHash /\ create_experiment(body)
    \/ \E n \in ExperimentNames :
          probe.kind = "none" /\ experiment[n] # NoHash /\ delete_experiment(n)
    \/ \E x \in MetricInputs, v \in {"A", "B"} :
          probe.kind = "none" /\ record_metric("e1", v, "clicked", x)
    \/ \E n \in ExperimentNames : get_experiment_results(n)

SpecDelete == InitResults /\ [][NextDelete]_vars

\* the variant is one of the experiment's declared variants
DeclaredVariant(exp, variant_name) ==
    \E i \in 1..Len(exp.variants) : exp.variants[i].name = variant_name

\* C27: delete_experiment removes the experiment hash and the set membership
\* and nothing else: assignment keys, the assignments hash and the metric lists
\* stay. So, once the experiment is created again under the name, a call for a
\* user assigned before the deletion returns the stored variant, even one the
\* new experiment does not declare, and get_experiment_results counts the
\* stored assignments and observations.
C27_DeleteLeavesRecords ==
    [][/\ \A n \in ExperimentNames :
             (experiment[n] # NoHash /\ experiment'[n] = NoHash)
                => /\ experiments' = experiments \ {n}
                   /\ assignment_key' = assignment_key
                   /\ assignments_hash' = assignments_hash
                   /\ experiment_metrics' = experiment_metrics
       /\ \A t \in Tasks :
             LET c == calls'[t] IN
             (calls[t].pc = "get" /\ c.pc = "done" /\ c.existing_assignment # None
                /\ ~DeclaredVariant(c.experiment[1], c.existing_assignment))
                => c.outcome = Ret(c.existing_assignment)
       /\ (probe.kind = "none" /\ probe'.kind = "results"
             /\ experiment[probe'.experiment_name] # NoHash)
             => /\ probe'.result.exc = ""
                /\ \A i \in 1..Len(probe'.result.val) :
                      LET r == probe'.result.val[i]
                          stored == {u \in Users :
                                       assignments_hash[r.experiment_id][u] = r.variant_name}
                          obs == lrange(<<r.experiment_id, r.variant_name, "clicked">>)
                      IN /\ r.total_users = Cardinality(stored)
                         /\ (stored # {} /\ obs # <<>>) => "clicked" \in DOMAIN r.metrics
      ]_vars


-----------------------------------------------------------------------------
(* The operator's requests served concurrently: every store operation of   *)
(* create, update and delete is awaited, and another request runs between  *)
(* two of them.                                                            *)

Operation(op, pc, name, body) == [op |-> op, pc |-> pc, name |-> name, body |-> body]

\* bodies of create_experiment / update_experiment and of create_rule / update_rule
AdminExperimentInputs == {Experiment("e1", st, VAB, <<>>) : st \in {"draft", "running"}}
AdminRuleInputs == {TargetingRule("r1", <<>>, pct, Unset, Unset, TRUE) : pct \in {Unset, 50}}

\* ab_testing.py lines 54-62: the variants are checked, then redis.hset
create_experiment_hset(t, body) ==
    /\ operations[t].pc = "idle"
    /\ budget.exp_ops < MaxExpOps
    /\ budget' = [budget EXCEPT !.exp_ops = @ + 1]
    /\ IF body.variants = <<>>
       THEN UNCHANGED <<experiment, operations>>
       ELSE /\ experiment' = [experiment EXCEPT ![body.name] = <<body>>]
            /\ operations' = [operations EXCEPT ![t] =
                                Operation("create_experiment", "sadd", body.name, <<body>>)]
    /\ UNCHANGED <<experiments, rule, rules, assignment_key, assignments_hash,
                   experiment_metrics, user_store, rng, now, calls, probe>>

\* line 63: redis.sadd("experiments", name)
create_experiment_sadd(t) ==
    /\ operations[t].op = "create_experiment"
    /\ operations[t].pc = "sadd"
    /\ experiments' = experiments \cup {operations[t].name}
    /\ operations' = [operations EXCEPT ![t] = NoOperation]
    /\ UNCHANGED <<experiment, rule, rules, assignment_key, assignments_hash,
                   experiment_metrics, user_store, rng, now, calls, budget, probe>>

\* lines 78-82: get_experiment, and None for a missing experiment
update_experiment_get(t, name, body) ==
    /\ operations[t].pc = "idle"
    /\ budget.exp_ops < MaxExpOps
    /\ budget' = [budget EXCEPT !.exp_ops = @ + 1]
    /\ operations' = IF experiment[name] = NoHash THEN operations
                     ELSE [operations EXCEPT ![t] =
                             Operation("update_experiment", "hset", name, <<body>>)]
    /\ UNCHANGED <<store, rng, now, calls, probe>>

\* line 86: redis.hset of the updated mapping
update_experiment_hset(t) ==
    /\ operations[t].op = "update_experiment"
    /\ operations[t].pc = "hset"
    /\ experiment' = [experiment EXCEPT ![operations[t].name] = operations[t].body]
    /\ operations' = [operations EXCEPT ![t] = NoOperation]
    /\ UNCHANGED <<experiments, rule, rules, assignment_key, assignments_hash,
                   experiment_metrics, user_store, rng, now, calls, budget, probe>>

\* lines 92-93: redis.exists, and False for a missing experiment
delete_experiment_exists(t, name) ==
    /\ operations[t].pc = "idle"
    /\ budget.exp_ops < MaxExpOps
    /\ budget' = [budget EXCEPT !.exp_ops = @ + 1]
    /\ operations' = IF experiment[name] = NoHash THEN operations
                     ELSE [operations EXCEPT ![t] =
                             Operation("delete_experiment", "delete", name, NoHash)]
    /\ UNCHANGED <<store, rng, now, calls, probe>>

\* line 94: redis.delete
delete_experiment_delete(t) ==
    /\ operations[t].op = "delete_experiment"
    /\ operations[t].pc = "delete"
    /\ experiment' = [experiment EXCEPT ![operations[t].name] = NoHash]
    /\ operations' = [operations EXCEPT ![t].pc = "srem"]
    /\ UNCHANGED <<experiments, rule, rules, assignment_key, assignments_hash,
                   experiment_metrics, user_store, rng, now, calls, budget, probe>>

\* line 95: redis.srem
delete_experiment_srem(t) ==
    /\ operations[t].op = "delete_experiment"
    /\ operations[t].pc = "srem"
    /\ experiments' = experiments \ {operations[t].name}
    /\ operations' = [operations EXCEPT ![t] = NoOperation]
    /\ UNCHANGED <<experiment, rule, rules, assignment_key, assignments_hash,
                   experiment_metrics, user_store, rng, now, calls, budget, probe>>

\* targeting.py lines 151-156: redis.hset, then redis.sadd("rules", name)
create_rule_hset(t, body) ==
    /\ operations[t].pc = "idle"
    /\ budget.rule_ops < MaxRuleOps
    /\ budget' = [budget EXCEPT !.rule_ops = @ + 1]
    /\ rule' = [rule EXCEPT ![body.name] = <<body>>]
    /\ operations' = [operations EXCEPT ![t] =
                        Operation("create_rule", "sadd", body.name, <<body>>)]
    /\ UNCHANGED <<experiment, experiments, rules, assignment_key, assignments_hash,
                   experiment_metrics, user_store, rng, now, calls, probe>>

create_rule_sadd(t) ==
    /\ operations[t].op = "create_rule"
    /\ operations[t].pc = "sadd"
    /\ rules' = rules \cup {operations[t].name}
    /\ operations' = [operations EXCEPT ![t] = NoOperation]
    /\ UNCHANGED <<experiment, experiments, rule, assignment_key, assignments_hash,
                   experiment_metrics, user_store, rng, now, calls, budget, probe>>

\* lines 165-176: get_rule, then redis.hset of the updated mapping
update_rule_get(t, name, body) ==
    /\ operations[t].pc = "idle"
    /\ budget.rule_ops < MaxRuleOps
    /\ budget' = [budget EXCEPT !.rule_ops = @ + 1]
    /\ operations' = IF rule[name] = NoHash THEN operations
                     ELSE [operations EXCEPT ![t] =
                             Operation("update_rule", "hset", name, <<body>>)]
    /\ UNCHANGED <<store, rng, now, calls, probe>>

update_rule_hset(t) ==
    /\ operations[t].op = "update_rule"
    /\ operations[t].pc = "hset"
    /\ rule' = [rule EXCEPT ![operations[t].name] = operations[t].body]
    /\ operations' = [operations EXCEPT ![t] = NoOperation]
    /\ UNCHANGED <<experiment, experiments, rules, assignment_key, assignments_hash,
                   experiment_metrics, user_store, rng, now, calls, budget, probe>>

\* lines 178-184: redis.exists, redis.delete, redis.srem
delete_rule_exists(t, name) ==
    /\ operations[t].pc = "idle"
    /\ budget.rule_ops < MaxRuleOps
    /\ budget' = [budget EXCEPT !.rule_ops = @ + 1]
    /\ operations' = IF rule[name] = NoHash THEN operations
                     ELSE [operations EXCEPT ![t] =
                             Operation("delete_rule", "delete", name, NoHash)]
    /\ UNCHANGED <<store, rng, now, calls, probe>>

delete_rule_delete(t) ==
    /\ operations[t].op = "delete_rule"
    /\ operations[t].pc = "delete"
    /\ rule' = [rule EXCEPT ![operations[t].name] = NoHash]
    /\ operations' = [operations EXCEPT ![t].pc = "srem"]
    /\ UNCHANGED <<experiment, experiments, rules, assignment_key, assignments_hash,
                   experiment_metrics, user_store, rng, now, calls, budget, probe>>

delete_rule_srem(t) ==
    /\ operations[t].op = "delete_rule"
    /\ operations[t].pc = "srem"
    /\ rules' = rules \ {operations[t].name}
    /\ operations' = [operations EXCEPT ![t] = NoOperation]
    /\ UNCHANGED <<experiment, experiments, rule, assignment_key, assignments_hash,
                   experiment_metrics, user_store, rng, now, calls, budget, probe>>

InitAdmin ==
    /\ InitStore
    /\ rng = 0
    /\ budget = [workload |-> "admin", calls |-> 0, exp_ops |-> 0, rule_ops |-> 0,
                 metric_ops |-> 0, user_ops |-> 0]
    /\ probe = [kind |-> "none"]

NextAdmin ==
    \/ \E t \in Tasks, body \in AdminExperimentInputs : create_experiment_hset(t, body)
    \/ \E t \in Tasks : create_experiment_sadd(t)
    \/ \E t \in Tasks, n \in ExperimentNames, body \in AdminExperimentInputs :
          update_experiment_get(t, n, body)
    \/ \E t \in Tasks : update_experiment_hset(t)
    \/ \E t \in Tasks, n \in ExperimentNames : delete_experiment_exists(t, n)
    \/ \E t \in Tasks : delete_experiment_delete(t)
    \/ \E t \in Tasks : delete_experiment_srem(t)
    \/ \E t \in Tasks, body \in AdminRuleInputs : create_rule_hset(t, body)
    \/ \E t \in Tasks : create_rule_sadd(t)
    \/ \E t \in Tasks, n \in {"r1"}, body \in AdminRuleInputs : update_rule_get(t, n, body)
    \/ \E t \in Tasks : update_rule_hset(t)
    \/ \E t \in Tasks, n \in {"r1"} : delete_rule_exists(t, n)
    \/ \E t \in Tasks : delete_rule_delete(t)
    \/ \E t \in Tasks : delete_rule_srem(t)

SpecAdmin == InitAdmin /\ [][NextAdmin]_vars

NoOperationInProgress == \A t \in Tasks : operations[t].pc = "idle"

\* C28: index consistency. In every state with no request in progress, a name
\* is a member of the set experiments exactly when the hash experiment:{name}
\* exists, whatever the interleaving of concurrent create, update and delete
\* requests; and likewise for the set rules and the hashes rule:{name}.
C28_IndexConsistent ==
    NoOperationInProgress =>
        /\ \A n \in ExperimentNames : n \in experiments <=> experiment[n] # NoHash
        /\ \A n \in RuleNames : n \in rules <=> rule[n] # NoHash

-----------------------------------------------------------------------------
(* The register endpoint (app/api/v1/endpoints/auth.py) served             *)
(* concurrently.                                                           *)

\* auth.py lines 15-20: get_user_by_email; HTTPException 400 for a user found,
\* and the error of the lookup re-raised
register_get_user_by_email(t, body) ==
    LET db_user == IF email[body.email] = None
                   THEN [exc |-> "", found |-> FALSE, val |-> NoUser]
                   ELSE get_user_by_id(email[body.email])
    IN
    /\ operations[t].pc = "idle"
    /\ operations' = [operations EXCEPT ![t] =
          IF db_user.exc # "" THEN Operation("register", "done", db_user.exc, <<body>>)
          ELSE IF db_user.found
               THEN Operation("register", "done", "HTTPException", <<body>>)
               ELSE Operation("register", "create", "", <<body>>)]
    /\ UNCHANGED <<store, rng, now, calls, budget, probe>>

\* line 21: create_user
register_create_user(t, id) ==
    /\ operations[t].op = "register"
    /\ operations[t].pc = "create"
    /\ create_user(operations[t].body[1], id)
    /\ operations' = [operations EXCEPT ![t].pc = "done", ![t].name = id]

\* lines 22-26: the response leaves; the task takes the next request
register_return(t) ==
    /\ operations[t].op = "register"
    /\ operations[t].pc = "done"
    /\ operations' = [operations EXCEPT ![t] = NoOperation]
    /\ UNCHANGED <<store, rng, now, calls, budget, probe>>

NextRegister ==
    \/ \E t \in Tasks, body \in UserInputs_create : register_get_user_by_email(t, body)
    \/ \E t \in Tasks, id \in UserIds : register_create_user(t, id)
    \/ \E t \in Tasks : register_return(t)

SpecRegister == InitUser /\ [][NextRegister]_vars

\* the stored users that carry the address
StoredWith(e) == {i \in UserIds : user[i] # NoHash /\ user[i][1].email = e}

\* C30: email uniqueness under registration. Whatever the interleaving of
\* concurrent register calls, at most one stored user has a given email, the
\* key email:{u.email} of every stored user u holds u.id, and a register call
\* for an email that is registered creates no user.
C30_EmailUnique ==
    /\ \A e \in Emails : Cardinality(StoredWith(e)) <= 1
    /\ \A i \in UserIds : user[i] # NoHash => email[user[i][1].email] = i
    /\ \A t \in Tasks :
          (operations[t].op = "register" /\ operations[t].pc = "create")
             => email[operations[t].body[1].email] = None

====
